---- MODULE Spec2Model ----
(***************************************************************************)
(* A model of src/harvester.py: the GitHub API client (GitHubAPI._request  *)
(* and its callers), the task loop of GitHubHarvester.process_harvest_tasks *)
(* and the write protocol of GitHubAPI.create_or_update_file, together with *)
(* the remote endpoints they talk to.                                       *)
(*                                                                         *)
(* One action is one iteration of the retry loop of _request at one call   *)
(* site (one HTTP request, the remote's answer, the sleep that follows and *)
(* the code that runs when the call ends), or one step of the task loop    *)
(* that sends nothing.                                                     *)
(*                                                                         *)
(* Time is kept relative: window is the time still to pass before the      *)
(* latest reset time advertised together with an exhausted rate limit.     *)
(* Timestamps inside stored results (processed_at, analyzed_at) are left   *)
(* out of the contents; no claim reads them.                               *)
(*                                                                         *)
(* Specifications:                                                         *)
(*   Spec            one run over up to MaxIssues issues of IssueKinds      *)
(*   SpecScheduled   one run with SCHEDULED_RUN=true                        *)
(*   SpecPayloads    one run over one harvest task, for every payload       *)
(*   SpecPaths       one run over two tasks whose types and ids are alike   *)
(*   SpecWriters     two runs storing a result at the same path             *)
(*   SpecClient      calls of _request on arbitrary responses               *)
(*   SpecClientLive  the same, with the call in progress going on           *)
(***************************************************************************)
EXTENDS Integers, Sequences, FiniteSets, TLC

\* ------------------------------------------------------------------ bounds

\* Longest list of open labelled issues the tracker returns.
MaxIssues == 2
\* Largest advertised reset delay (X-RateLimit-Reset minus the current time).
MaxResetIn == 2
\* Most repositories one search answers with.
MaxItems == 1
\* Number of _request calls of the client specification.
MaxCalls == 2

\* ------------------------------------------------------- program constants

\* _request(..., max_retries=3)
max_retries == 3
\* int(response.headers.get('X-RateLimit-Reset', time.time() + 60))
DefaultResetDelay == 60
\* the rate limit counts as exhausted when X-RateLimit-Remaining == 0
LowWaterMark == 1

OUTPUTS_DIR == "outputs"

\* A header that the response does not carry.
NoHeader == -1
\* sha is None / the file does not exist
NoSha == 0

Max(a, b) == IF a >= b THEN a ELSE b

Last(s) == s[Len(s)]

\* ---------------------------------------------------------------- responses

\* A network-level failure: session.request raises requests.RequestException.
NetError == [net |-> TRUE, status |-> 0, remaining |-> NoHeader, resetIn |-> NoHeader]

Reply(status, remaining, resetIn) ==
    [net |-> FALSE, status |-> status, remaining |-> remaining, resetIn |-> resetIn]

\* The remote's own answer, sent with an ample rate limit.
Genuine(status) == Reply(status, LowWaterMark, NoHeader)

\* HTTP 403 with X-RateLimit-Remaining: 0.
RateLimited(resetIn) == Reply(403, 0, resetIn)

\* What the network and the remote may answer in place of the remote's own answer.
Faults ==
    {NetError, Genuine(404), Genuine(500), RateLimited(MaxResetIn), RateLimited(NoHeader)}

Answers(status) == {Genuine(status)} \cup Faults

\* Every response the client specification feeds to _request.
Statuses == {200, 201, 202, 204, 403, 404, 409, 500}

Responses ==
    {NetError} \cup
    {Reply(s, r, t) : s \in Statuses, r \in {NoHeader, 0, LowWaterMark},
                      t \in {NoHeader} \cup (0 .. MaxResetIn)}

\* ------------------------------------------------------ GitHubAPI._request

\* response.status_code == 403 and 'X-RateLimit-Remaining' in response.headers
\*   and int(response.headers['X-RateLimit-Remaining']) == 0
IsRateLimited(resp) ==
    resp.status = 403 /\ resp.remaining # NoHeader /\ resp.remaining = 0

\* reset_time - time.time(), reset_time read from X-RateLimit-Reset or defaulted
ResetIn(resp) == IF resp.resetIn = NoHeader THEN DefaultResetDelay ELSE resp.resetIn

\* sleep_duration = max(reset_time - time.time() + 1, 1)
SleepDuration(resp) == Max(ResetIn(resp) + 1, 1)

\* response.status_code in (200, 201, 204)
IsSuccess(resp) == ~resp.net /\ resp.status \in {200, 201, 204}

\* time.sleep(2 ** attempt)
Backoff(attempt) == 2 ^ attempt

\* HasRetryLeft with the bound off by one: the last attempt retries as well.
HasRetryLeftOffByOne(attempt) == attempt < max_retries

\* if attempt < max_retries - 1
HasRetryLeft(attempt) == attempt < max_retries - 1

\* response.raise_for_status() raises for 4xx and 5xx only
RaisesForStatus(resp) == resp.status >= 400

\* One iteration of the retry loop (the body of "for attempt in range(max_retries)"):
\* what it does (act) and how long it sleeps first.
\*   continue   the loop goes to its next iteration
\*   value      return response.json()
\*   none       return None (404)
\*   raise      the exception leaves _request
\*   fall       the iteration ends without continue, return or raise
Iteration(attempt, resp) ==
    IF resp.net
    THEN IF HasRetryLeft(attempt)
         THEN [act |-> "continue", sleep |-> Backoff(attempt)]
         ELSE [act |-> "raise", sleep |-> 0]
    ELSE IF IsRateLimited(resp)
    THEN [act |-> "continue", sleep |-> SleepDuration(resp)]
    ELSE IF IsSuccess(resp)
    THEN [act |-> "value", sleep |-> 0]
    ELSE IF resp.status = 404
    THEN [act |-> "none", sleep |-> 0]
    ELSE IF HasRetryLeft(attempt)
    THEN [act |-> "continue", sleep |-> Backoff(attempt)]
    ELSE IF RaisesForStatus(resp)
    THEN [act |-> "raise", sleep |-> 0]
    ELSE [act |-> "fall", sleep |-> 0]

\* Outcome whose loop has no bound: every continue leads to another attempt.
OutcomeUnbounded(attempt, resp) ==
    LET it == Iteration(attempt, resp)
    IN  IF it.act \in {"continue", "fall"} THEN "retry" ELSE it.act

\* The loop around the iteration: after continue (or a fall-through) the next
\* attempt runs if range(max_retries) has one, else the function ends with
\* its last line, return None.
Outcome(attempt, resp) ==
    LET it == Iteration(attempt, resp)
    IN  IF it.act \in {"continue", "fall"}
        THEN IF attempt + 1 < max_retries THEN "retry" ELSE "none"
        ELSE it.act

\* ------------------------------------------------------------------- clock

\* A response that advertises a reset time together with a rate limit below
\* the low-water mark.
OpensWindow(resp) ==
    ~resp.net /\ resp.remaining # NoHeader /\ resp.remaining < LowWaterMark
    /\ resp.resetIn # NoHeader

\* The time left to the advertised reset after the response and the sleep of
\* the iteration that received it.
WindowAfter(w, resp, slept) ==
    Max(0, (IF OpensWindow(resp) THEN Max(w, resp.resetIn) ELSE w) - slept)

\* ------------------------------------------------------------ data: issues

\* dict.get(key, default)
Get(d, key, default) == IF key \in DOMAIN d THEN d[key] ELSE default

\* str.lower() on the words the model uses
Lower(w) == IF w = "Harvest" THEN "harvest" ELSE w

\* What an issue body may be: absent (JSON null, Python None), text that is
\* not JSON, or the text of a JSON object.
NullBody == [kind |-> "null"]
TextBody == [kind |-> "text"]

\* json.dumps(obj): the text of a JSON object
JsonDumps(obj) == [kind |-> "json", obj |-> obj]

\* json.loads(body): the object, or the exception it raises
JsonLoads(body) ==
    IF body.kind = "json" THEN [ok |-> TRUE, value |-> body.obj, exc |-> "none"]
    ELSE IF body.kind = "text" THEN [ok |-> FALSE, value |-> << >>, exc |-> "JSONDecodeError"]
    ELSE [ok |-> FALSE, value |-> << >>, exc |-> "TypeError"]

\* The task documents of the model.
HarvestT1 == [type |-> "harvest", id |-> "t1", payload |-> [min_stars |-> 10]]
HarvestT1x == [type |-> "harvest", id |-> "t1", payload |-> [topics |-> <<"x">>]]
HarvestNoId == [type |-> "harvest", payload |-> [topics |-> << >>]]
DeployT2 == [type |-> "deploy", id |-> "t2", payload |-> [topics |-> <<"x">>]]
UpperT2 == [type |-> "Harvest", id |-> "t2", payload |-> [topics |-> <<"x">>]]
NoTypeT1 == [id |-> "t1"]

\* The open, labelled issues the tracker may hold (title as a list of words).
IssueKinds ==
    { [title |-> <<"Harvest", "repos">>, body |-> TextBody],
      [title |-> <<"Harvest", "repos">>, body |-> NullBody],
      [title |-> <<"new", "task">>, body |-> TextBody],
      [title |-> <<"new", "task">>, body |-> NullBody],
      [title |-> <<"new", "task">>, body |-> JsonDumps(HarvestT1)],
      [title |-> <<"new", "task">>, body |-> JsonDumps(HarvestT1x)],
      [title |-> <<"harvest", "more">>, body |-> JsonDumps(HarvestNoId)],
      [title |-> <<"harvest", "more">>, body |-> JsonDumps(DeployT2)],
      [title |-> <<"new", "task">>, body |-> JsonDumps(UpperT2)],
      [title |-> <<"harvest", "more">>, body |-> JsonDumps(NoTypeT1)] }

\* Issue lists of length 0 .. MaxIssues; an issue's number is its position.
IssueLists == UNION { [1 .. n -> IssueKinds] : n \in 0 .. MaxIssues }

Numbered(list) == [i \in DOMAIN list |-> [number |-> i, title |-> list[i].title,
                                            body |-> list[i].body]]

\* 'harvest' in title   (title = issue.get('title', '').lower())
TitleHasKeyword(issue) == \E i \in DOMAIN issue.title : Lower(issue.title[i]) = "harvest"

\* get_harvest_tasks, the filter loop over one issue: whether the issue is
\* kept, or the exception json.loads raises that the except clause
\* (json.JSONDecodeError, AttributeError) does not catch.
FilterIssue(issue) ==
    IF TitleHasKeyword(issue) THEN "keep"
    ELSE LET j == JsonLoads(issue.body)
         IN  IF j.ok
             THEN IF Lower(Get(j.value, "type", "")) = "harvest" THEN "keep" ELSE "drop"
             ELSE IF j.exc = "JSONDecodeError" THEN "drop" ELSE "raise"

RECURSIVE FilterTasks(_)
\* harvest_tasks, in the order of the listing
FilterTasks(list) ==
    IF list = << >> THEN << >>
    ELSE IF FilterIssue(Head(list)) = "keep"
         THEN <<Head(list)>> \o FilterTasks(Tail(list))
         ELSE FilterTasks(Tail(list))

\* Whether the filter loop raises on some issue of the listing.
FilterRaises(list) == \E i \in DOMAIN list : FilterIssue(list[i]) = "raise"

\* ------------------------------------------------- data: tasks and results

\* process_harvest_task: topics = payload.get('topics', ['ai', 'automation'])
Topics(payload) == Get(payload, "topics", <<"ai", "automation">>)

\* MinStars that takes the default for a value that is falsy as well
\* (payload.get('min_stars') or 10).
MinStarsOrDefault(payload) ==
    IF Get(payload, "min_stars", 0) = 0 THEN 10 ELSE payload.min_stars

\* process_harvest_task: min_stars = payload.get('min_stars', 10)
MinStars(payload) == Get(payload, "min_stars", 10)

\* process_harvest_task: created_after = payload.get('created_after', '2024-01-01')
CreatedAfter(payload) == Get(payload, "created_after", "2024-01-01")

\* process_harvest_task: count_per_topic = payload.get('count_per_topic', 3)
CountPerTopic(payload) == Get(payload, "count_per_topic", 3)

\* search_repos_by_topic: the params of the search request
SearchParams(topic, min_stars, created_after, count) ==
    [q |-> <<"topic:", topic, " stars:>", min_stars, " created:>", created_after>>,
     sort |-> "stars", order |-> "desc", per_page |-> count]

\* process_task: task_type = task_json.get('type', ''); if task_type == 'harvest'
IsHarvest(task_json) == Get(task_json, "type", "") = "harvest"

\* process_harvest_task's return value, harvested being the records gathered
HarvestResult(payload, harvested) ==
    [harvested_projects |-> harvested, count |-> Len(harvested), topics |-> Topics(payload)]

\* process_task's return value for a type it does not know
UnknownResult(task_json) == [error |-> Get(task_json, "type", "")]

\* The pieces of a string, for paths built by string formatting: a string
\* with an underscore inside is the strings around it and the underscore.
Chars(s) ==
    IF s = "harvest_a" THEN <<"harvest", "_", "a">>
    ELSE IF s = "a_b" THEN <<"a", "_", "b">>
    ELSE <<s>>

Today == "2024-01-01"

\* output_path = f"{OUTPUTS_DIR}/{today}/{task_type}_{task_id}.json"
OutputPath(task_json) ==
    <<OUTPUTS_DIR, "/", Today, "/">> \o Chars(Get(task_json, "type", "unknown"))
        \o <<"_">> \o Chars(Get(task_json, "id", "unknown")) \o <<".json">>

\* store_task_result: result_json = json.dumps(full_result)
ResultJson(task_json, result) ==
    JsonDumps([task_id |-> Get(task_json, "id", "unknown"),
               task_type |-> Get(task_json, "type", "unknown"),
               result |-> result])

\* ------------------------------------------- create_or_update_file: helpers

\* base64.b64encode(content_bytes).decode('utf-8'), and the remote's decoding
B64Encode(content) == [b64 |-> content]
B64Decode(text) == text.b64

\* ShaAfterRead that drops the revision it has read.
ShaAfterReadDropped(outcome, existing) == NoSha

\* if existing and 'sha' in existing: sha = existing['sha']
ShaAfterRead(outcome, existing) ==
    IF outcome = "value" /\ "sha" \in DOMAIN existing THEN existing.sha ELSE NoSha

\* data = {'message': ..., 'content': content_b64}; if sha: data['sha'] = sha
PutData(content, sha) ==
    IF sha # NoSha
    THEN [content |-> B64Encode(content), sha |-> sha]
    ELSE [content |-> B64Encode(content)]

\* ------------------------------------------------- the results repository

\* GET /repos/{repo}/contents/{path}
ContentsGetStatus(fs, path) == IF path \in DOMAIN fs THEN 200 ELSE 404
ContentsGetBody(fs, path) == [sha |-> fs[path].sha, content |-> B64Encode(fs[path].content)]

\* PUT /repos/{repo}/contents/{path}: a file that exists is replaced only by a
\* write that carries its current revision; a write without revision creates
\* the file and is refused when the file exists.
ContentsPutStatus(fs, path, data) ==
    IF path \in DOMAIN fs
    THEN IF "sha" \notin DOMAIN data THEN 422
         ELSE IF data.sha = fs[path].sha THEN 200 ELSE 409
    ELSE IF "sha" \in DOMAIN data THEN 422 ELSE 201

ContentsPut(fs, path, data) ==
    LET rev == IF path \in DOMAIN fs THEN fs[path].sha + 1 ELSE 1
    IN  (path :> [sha |-> rev, content |-> B64Decode(data.content)]) @@ fs


\* ------------------------------------------------------------------- state

Procs == {"A", "B"}

VARIABLES
    issues,          \* tracker: the open, labelled issues (numbered)
    comments,        \* tracker: issue number -> the comments posted, in order
    closed,          \* tracker: the issue numbers closed
    files,           \* results repository: path -> [sha, content]
    written,         \* history: worker -> the issue numbers whose result write succeeded
    window,          \* time left to the advertised rate-limit reset
    cooldownAtSend,  \* history: window at the moment the latest request was sent
    pc,              \* worker -> its position in run / process_harvest_tasks
    attempt,         \* worker -> attempt of the _request call in flight
    tasks,           \* worker -> tasks, the list get_harvest_tasks returned
    idx,             \* worker -> position of task in tasks (the for loop)
    sha,             \* worker -> sha of create_or_update_file
    harvested,       \* worker -> harvested of process_harvest_task
    topicIdx,        \* worker -> position of topic in topics (the for loop)
    err,             \* worker -> the exception caught at the task boundary
    lastGet,         \* history: worker -> the answer to its latest read of a file
    lastPut,         \* history: worker -> its latest write of a file and the answer
    cl,              \* the client specification's _request calls
    events,          \* history: worker -> the _request calls made for its latest task
    harvested_projects,  \* self.harvested_projects
    result_file      \* the local file harvested/harvest_<timestamp>.json

vars == <<issues, comments, closed, files, written, window, cooldownAtSend,
          pc, attempt, tasks, idx, sha, harvested, topicIdx, err, lastGet, lastPut, cl,
          events, harvested_projects, result_file>>

tracker == <<issues, comments, closed>>
locals == <<sha, harvested, topicIdx, err>>
logs == <<lastGet, lastPut>>
sched == <<harvested_projects, result_file>>

NoGet == [path |-> << >>, status |-> 0, sha |-> NoSha]
NoPut == [path |-> << >>, data |-> << >>, status |-> 0]

NoErr == [exc |-> "none", status |-> 0]

\* No task taken up yet, and no local harvest file written.
NoEvents == [issue |-> 0, calls |-> << >>, clean |-> TRUE]
NoFile == [kind |-> "absent"]

\* The exception a response makes _request raise.
ErrOf(resp) ==
    IF resp.net THEN [exc |-> "ConnectionError", status |-> 0]
    ELSE [exc |-> "HTTPError", status |-> resp.status]

ClientIdle == [attempt |-> 0, outcome |-> "idle", sleeps |-> << >>, resps |-> << >>,
               calls |-> 0]

Task(p) == tasks[p][idx[p]]
\* task_json = json.loads(body)
TaskJson(p) == JsonLoads(Task(p).body).value
\* payload = task_json.get('payload', {})
Payload(p) == Get(TaskJson(p), "payload", << >>)
\* Result that takes the records of the scheduled harvest (self.harvested_projects,
\* empty in a run without SCHEDULED_RUN) in place of the task's own.
ResultOfSchedule(p) ==
    IF IsHarvest(TaskJson(p)) THEN HarvestResult(<< >>, << >>)
    ELSE UnknownResult(TaskJson(p))

\* result = self.process_task(task_json)
Result(p) ==
    IF IsHarvest(TaskJson(p)) THEN HarvestResult(Payload(p), harvested[p])
    ELSE UnknownResult(TaskJson(p))

Init ==
    /\ issues \in {Numbered(l) : l \in IssueLists}
    /\ comments = [i \in DOMAIN issues |-> << >>]
    /\ closed = {}
    /\ files = << >>
    /\ written = [p \in Procs |-> {}]
    /\ window = 0
    /\ cooldownAtSend = 0
    /\ pc = [p \in Procs |-> IF p = "A" THEN "list" ELSE "idle"]
    /\ attempt = [p \in Procs |-> 0]
    /\ tasks = [p \in Procs |-> << >>]
    /\ idx = [p \in Procs |-> 0]
    /\ sha = [p \in Procs |-> NoSha]
    /\ harvested = [p \in Procs |-> << >>]
    /\ topicIdx = [p \in Procs |-> 0]
    /\ err = [p \in Procs |-> NoErr]
    /\ lastGet = [p \in Procs |-> NoGet]
    /\ lastPut = [p \in Procs |-> NoPut]
    /\ cl = ClientIdle
    /\ events = [p \in Procs |-> NoEvents]
    /\ harvested_projects = << >>
    /\ result_file = NoFile

\* ------------------------------------------------------- steps of a worker

\* The request is sent and answered, and the iteration sleeps.
Exchange(p, resp) ==
    /\ cooldownAtSend' = window
    /\ window' = WindowAfter(window, resp, Iteration(attempt[p], resp).sleep)

\* The retry loop goes to its next attempt.
Retry(p) ==
    /\ attempt' = [attempt EXCEPT ![p] = @ + 1]
    /\ UNCHANGED <<pc, tasks, idx, locals>>

Goto(p, label) ==
    /\ pc' = [pc EXCEPT ![p] = label]
    /\ attempt' = [attempt EXCEPT ![p] = 0]

\* A _request call made for the task has ended; ok tells whether it ended
\* with the remote's own answer to the request and without an exception.
Log(p, op, out, ok, params) ==
    events' = [events EXCEPT ![p].calls = Append(@, [op |-> op, params |-> params]),
                             ![p].clean = @ /\ ok]

\* The calls of a call site that has no more to log than its outcome.
LogCall(p, op, out) ==
    IF out = "retry" THEN UNCHANGED events ELSE Log(p, op, out, out = "value", << >>)

\* The reads and writes of the next call are logged afresh.
ResetLogs(p) ==
    /\ lastGet' = [lastGet EXCEPT ![p] = NoGet]
    /\ lastPut' = [lastPut EXCEPT ![p] = NoPut]

\* The for loop over tasks takes its next task, or ends.
NextTask(p) ==
    /\ IF idx[p] < Len(tasks[p])
       THEN Goto(p, "parse") /\ idx' = [idx EXCEPT ![p] = @ + 1]
       ELSE Goto(p, "done") /\ UNCHANGED idx
    /\ sha' = [sha EXCEPT ![p] = NoSha]
    /\ harvested' = [harvested EXCEPT ![p] = << >>]
    /\ topicIdx' = [topicIdx EXCEPT ![p] = 0]
    /\ err' = [err EXCEPT ![p] = NoErr]
    /\ ResetLogs(p)
    /\ UNCHANGED tasks

\* except Exception as e: the handler posts the failure comment next.
Catch(p, e) ==
    /\ Goto(p, "post_failure")
    /\ err' = [err EXCEPT ![p] = e]
    /\ ResetLogs(p)
    /\ UNCHANGED <<tasks, idx, sha, harvested, topicIdx>>

\* An exception leaves process_harvest_tasks and run: the process ends.
Crash(p, e) ==
    /\ Goto(p, "crashed")
    /\ err' = [err EXCEPT ![p] = e]
    /\ ResetLogs(p)
    /\ UNCHANGED <<tasks, idx, sha, harvested, topicIdx>>

PostComment(p, text) ==
    comments' = [comments EXCEPT ![Task(p).number] = Append(@, text)]

\* process_harvest_tasks: tasks = self.github.get_harvest_tasks(AGENT_TASKS_REPO),
\* "if not tasks: return", and the entry into the for loop.
GetHarvestTasks(p) ==
    /\ pc[p] = "list"
    /\ \E resp \in Answers(200) :
        LET out == Outcome(attempt[p], resp)
        IN  /\ Exchange(p, resp)
            /\ UNCHANGED <<tracker, files, written, cl, sched, events>>
            /\ CASE out = "retry" -> Retry(p) /\ UNCHANGED logs
                 [] out = "raise" -> Crash(p, ErrOf(resp))
                 [] out = "none" -> Goto(p, "done") /\ UNCHANGED <<tasks, idx, locals, logs>>
                 [] OTHER ->
                      IF FilterRaises(issues)
                      THEN Crash(p, [exc |-> "TypeError", status |-> 0])
                      ELSE /\ tasks' = [tasks EXCEPT ![p] = FilterTasks(issues)]
                           /\ IF FilterTasks(issues) = << >>
                              THEN Goto(p, "done") /\ UNCHANGED idx
                              ELSE Goto(p, "parse") /\ idx' = [idx EXCEPT ![p] = 1]
                           /\ UNCHANGED <<locals, logs>>

\* ParseBody with json.loads moved behind the started comment.
ParseBodyLate(p) ==
    /\ pc[p] = "parse"
    /\ Goto(p, "post_started")
    /\ events' = [events EXCEPT ![p] = [issue |-> Task(p).number, calls |-> << >>,
                                          clean |-> TRUE]]
    /\ UNCHANGED <<tracker, files, written, window, cooldownAtSend, tasks, idx,
                   locals, logs, cl, sched>>

\* The head of the loop body: body = task.get('body', ''); task_json =
\* json.loads(body), with the two except clauses.
ParseBody(p) ==
    /\ pc[p] = "parse"
    /\ LET j == JsonLoads(Task(p).body)
       IN  IF j.ok THEN Goto(p, "post_started") /\ UNCHANGED err
           ELSE IF j.exc = "JSONDecodeError"
           THEN Goto(p, "post_parse_error") /\ UNCHANGED err
           ELSE Goto(p, "post_failure")
                /\ err' = [err EXCEPT ![p] = [exc |-> j.exc, status |-> 0]]
    /\ events' = [events EXCEPT ![p] = [issue |-> Task(p).number, calls |-> << >>,
                                          clean |-> TRUE]]
    /\ UNCHANGED <<tracker, files, written, window, cooldownAtSend, tasks, idx,
                   sha, harvested, topicIdx, logs, cl, sched>>

\* StartTask that returns the result without searching.
StartTaskNoSearch(p) == Goto(p, "cuf_read") /\ UNCHANGED topicIdx

\* process_task / process_harvest_task up to the first search, or to the
\* return when nothing is searched.
StartTask(p) ==
    IF IsHarvest(TaskJson(p)) /\ Topics(Payload(p)) # << >>
    THEN Goto(p, "search") /\ topicIdx' = [topicIdx EXCEPT ![p] = 1]
    ELSE Goto(p, "cuf_read") /\ UNCHANGED topicIdx

\* self.github.create_comment(..., "Starting task processing...")
PostStarted(p) ==
    /\ pc[p] = "post_started"
    /\ \E resp \in Answers(201) :
        LET out == Outcome(attempt[p], resp)
        IN  /\ Exchange(p, resp)
            /\ UNCHANGED <<issues, closed, files, written, cl, sched>>
            /\ IF out = "value" THEN PostComment(p, "started") ELSE UNCHANGED comments
            /\ LogCall(p, "started", out)
            /\ CASE out = "retry" -> Retry(p) /\ UNCHANGED logs
                 [] out = "raise" -> Catch(p, ErrOf(resp))
                 [] OTHER -> StartTask(p)
                             /\ UNCHANGED <<tasks, idx, sha, harvested, err, logs>>

\* repos = self.search_repos_by_topic(topic, ...) and the loop over repos
SearchTopic(p) ==
    /\ pc[p] = "search"
    /\ \E resp \in Answers(200), n \in 0 .. MaxItems :
        LET out == Outcome(attempt[p], resp)
            topic == Topics(Payload(p))[topicIdx[p]]
            found == IF out = "value" THEN [i \in 1 .. n |-> topic] ELSE << >>
            params == SearchParams(topic, MinStars(Payload(p)), CreatedAfter(Payload(p)),
                                   CountPerTopic(Payload(p)))
        IN  /\ Exchange(p, resp)
            /\ UNCHANGED <<tracker, files, written, cl, sched>>
            /\ IF out = "retry" THEN UNCHANGED events
               ELSE Log(p, "search", out, out = "value", params)
            /\ CASE out = "retry" -> Retry(p) /\ UNCHANGED logs
                 [] out = "raise" -> Catch(p, ErrOf(resp))
                 [] OTHER ->
                      /\ harvested' = [harvested EXCEPT ![p] = @ \o found]
                      /\ IF topicIdx[p] < Len(Topics(Payload(p)))
                         THEN Goto(p, "search") /\ topicIdx' = [topicIdx EXCEPT ![p] = @ + 1]
                         ELSE Goto(p, "cuf_read") /\ UNCHANGED topicIdx
                      /\ UNCHANGED <<tasks, idx, sha, err, logs>>

\* create_or_update_file: existing = self._request('GET', url) and the sha it yields
CufRead(p) ==
    /\ pc[p] = "cuf_read"
    /\ LET path == OutputPath(TaskJson(p))
       IN  \E resp \in Answers(ContentsGetStatus(files, path)) :
            LET out == Outcome(attempt[p], resp)
            IN  /\ Exchange(p, resp)
                /\ UNCHANGED <<tracker, files, written, cl, sched>>
                /\ IF out = "retry" THEN UNCHANGED events
                   ELSE Log(p, "read", out,
                            resp = Genuine(ContentsGetStatus(files, path)), << >>)
                /\ CASE out = "retry" -> Retry(p) /\ UNCHANGED logs
                     [] out = "raise" -> Catch(p, ErrOf(resp))
                     [] OTHER ->
                          /\ sha' = [sha EXCEPT ![p] =
                                 IF out = "value"
                                 THEN ShaAfterRead(out, ContentsGetBody(files, path))
                                 ELSE ShaAfterRead(out, << >>)]
                          /\ lastGet' = [lastGet EXCEPT ![p] =
                                 [path |-> path, status |-> resp.status,
                                  sha |-> IF IsSuccess(resp)
                                          THEN ContentsGetBody(files, path).sha
                                          ELSE NoSha]]
                          /\ Goto(p, "cuf_write")
                          /\ UNCHANGED <<tasks, idx, harvested, topicIdx, err, lastPut>>

\* WriteSha with the revision fetched again when the write is sent.
WriteShaRefetched(p) ==
    LET path == OutputPath(TaskJson(p))
    IN  IF path \in DOMAIN files THEN files[path].sha ELSE NoSha

\* The sha the write carries: if sha: data['sha'] = sha
WriteSha(p) == sha[p]

\* create_or_update_file: return self._request('PUT', url, data=data), and
\* store_task_result's return to the task loop.
CufWrite(p) ==
    /\ pc[p] = "cuf_write"
    /\ LET path == OutputPath(TaskJson(p))
           data == PutData(ResultJson(TaskJson(p), Result(p)), WriteSha(p))
       IN  \E resp \in Answers(ContentsPutStatus(files, path, data)) :
            LET out == Outcome(attempt[p], resp)
            IN  /\ Exchange(p, resp)
                /\ UNCHANGED <<tracker, cl, sched>>
                /\ LogCall(p, "write", out)
                /\ IF out = "value"
                   THEN /\ files' = ContentsPut(files, path, data)
                        /\ written' = [written EXCEPT ![p] = @ \cup {Task(p).number}]
                   ELSE UNCHANGED <<files, written>>
                /\ CASE out = "retry" ->
                          /\ Retry(p)
                          /\ lastPut' = [lastPut EXCEPT ![p] =
                                 [path |-> path, data |-> data, status |-> 0]]
                          /\ UNCHANGED lastGet
                     [] out = "raise" -> Catch(p, ErrOf(resp))
                     [] OTHER ->
                          /\ lastPut' = [lastPut EXCEPT ![p] =
                                 [path |-> path, data |-> data, status |-> resp.status]]
                          /\ Goto(p, "post_completed")
                          /\ UNCHANGED <<tasks, idx, locals, lastGet>>

\* self.github.create_comment(..., "Task completed successfully! ...")
PostCompleted(p) ==
    /\ pc[p] = "post_completed"
    /\ \E resp \in Answers(201) :
        LET out == Outcome(attempt[p], resp)
        IN  /\ Exchange(p, resp)
            /\ UNCHANGED <<issues, closed, files, written, cl, sched>>
            /\ IF out = "value" THEN PostComment(p, "completed") ELSE UNCHANGED comments
            /\ LogCall(p, "completed", out)
            /\ CASE out = "retry" -> Retry(p) /\ UNCHANGED logs
                 [] out = "raise" -> Catch(p, ErrOf(resp))
                 [] OTHER -> Goto(p, "close") /\ UNCHANGED <<tasks, idx, locals, logs>>

\* self.github.close_issue(AGENT_TASKS_REPO, issue_number)
CloseIssue(p) ==
    /\ pc[p] = "close"
    /\ \E resp \in Answers(200) :
        LET out == Outcome(attempt[p], resp)
        IN  /\ Exchange(p, resp)
            /\ UNCHANGED <<issues, comments, files, written, cl, sched>>
            /\ IF out = "value" THEN closed' = closed \cup {Task(p).number}
               ELSE UNCHANGED closed
            /\ LogCall(p, "close", out)
            /\ CASE out = "retry" -> Retry(p) /\ UNCHANGED logs
                 [] out = "raise" -> Catch(p, ErrOf(resp))
                 [] OTHER -> NextTask(p)

\* except json.JSONDecodeError: create_comment(..., "Could not parse task JSON ...")
PostParseError(p) ==
    /\ pc[p] = "post_parse_error"
    /\ \E resp \in Answers(201) :
        LET out == Outcome(attempt[p], resp)
        IN  /\ Exchange(p, resp)
            /\ UNCHANGED <<issues, closed, files, written, cl, sched>>
            /\ IF out = "value" THEN PostComment(p, "parse_error") ELSE UNCHANGED comments
            /\ LogCall(p, "parse_error", out)
            /\ CASE out = "retry" -> Retry(p) /\ UNCHANGED logs
                 [] out = "raise" -> Crash(p, ErrOf(resp))
                 [] OTHER -> NextTask(p)

\* except Exception as e: create_comment(..., f"Error processing task: {str(e)}")
PostFailure(p) ==
    /\ pc[p] = "post_failure"
    /\ \E resp \in Answers(201) :
        LET out == Outcome(attempt[p], resp)
        IN  /\ Exchange(p, resp)
            /\ UNCHANGED <<issues, closed, files, written, cl, sched>>
            /\ IF out = "value" THEN PostComment(p, "failed") ELSE UNCHANGED comments
            /\ LogCall(p, "failed", out)
            /\ CASE out = "retry" -> Retry(p) /\ UNCHANGED logs
                 [] out = "raise" -> Crash(p, ErrOf(resp))
                 [] OTHER -> NextTask(p)

\* One run of the harvester (python harvester.py without SCHEDULED_RUN).
Next ==
    \/ GetHarvestTasks("A")
    \/ ParseBody("A")
    \/ PostStarted("A")
    \/ SearchTopic("A")
    \/ CufRead("A")
    \/ CufWrite("A")
    \/ PostCompleted("A")
    \/ CloseIssue("A")
    \/ PostParseError("A")
    \/ PostFailure("A")

Spec == Init /\ [][Next]_vars


\* ------------------------------------------------------------ scheduled mode

\* harvest_trending_projects: topics
TrendingTopics == <<"ai-agent", "automation", "saas-template", "trading-bot">>

\* repos[:3]
FirstThree(n) == IF n < 3 THEN n ELSE 3

\* harvest_trending_projects: one search of the loop over topics, with the
\* defaults of search_repos_by_topic, and the loop over repos[:3]. An exception
\* of the search leaves harvest_trending_projects, run_scheduled_harvest and run.
HarvestTrending(p) ==
    /\ pc[p] = "sched_search"
    /\ \E resp \in Answers(200), n \in 0 .. MaxItems :
        LET out == Outcome(attempt[p], resp)
            topic == TrendingTopics[topicIdx[p]]
            found == IF out = "value" THEN [i \in 1 .. FirstThree(n) |-> topic] ELSE << >>
        IN  /\ Exchange(p, resp)
            /\ UNCHANGED <<tracker, files, written, cl, events, result_file>>
            /\ CASE out = "retry" -> Retry(p) /\ UNCHANGED <<logs, harvested_projects>>
                 [] out = "raise" -> Crash(p, ErrOf(resp)) /\ UNCHANGED harvested_projects
                 [] OTHER ->
                      /\ harvested_projects' = harvested_projects \o found
                      /\ IF topicIdx[p] < Len(TrendingTopics)
                         THEN Goto(p, "sched_search")
                              /\ topicIdx' = [topicIdx EXCEPT ![p] = @ + 1]
                         ELSE Goto(p, "sched_save")
                              /\ topicIdx' = [topicIdx EXCEPT ![p] = 0]
                      /\ UNCHANGED <<tasks, idx, sha, harvested, err, logs>>

\* run_scheduled_harvest: json.dump(self.harvested_projects, f), and run's
\* call of process_harvest_tasks that follows.
SaveHarvest(p) ==
    /\ pc[p] = "sched_save"
    /\ result_file' = JsonDumps(harvested_projects)
    /\ Goto(p, "list")
    /\ UNCHANGED <<tracker, files, written, window, cooldownAtSend, tasks, idx, locals,
                   logs, cl, events, harvested_projects>>

\* The issues of the scheduled runs: none, or one task.
ScheduledIssues ==
    { << >>,
      <<[title |-> <<"new", "task">>, body |-> JsonDumps(HarvestT1x)]>>,
      <<[title |-> <<"Harvest", "repos">>, body |-> TextBody]>> }

\* One run with SCHEDULED_RUN=true.
InitScheduled ==
    /\ issues \in {Numbered(l) : l \in ScheduledIssues}
    /\ comments = [i \in DOMAIN issues |-> << >>]
    /\ closed = {}
    /\ files = << >>
    /\ written = [p \in Procs |-> {}]
    /\ window = 0
    /\ cooldownAtSend = 0
    /\ pc = [p \in Procs |-> IF p = "A" THEN "sched_search" ELSE "idle"]
    /\ attempt = [p \in Procs |-> 0]
    /\ tasks = [p \in Procs |-> << >>]
    /\ idx = [p \in Procs |-> 0]
    /\ sha = [p \in Procs |-> NoSha]
    /\ harvested = [p \in Procs |-> << >>]
    /\ topicIdx = [p \in Procs |-> IF p = "A" THEN 1 ELSE 0]
    /\ err = [p \in Procs |-> NoErr]
    /\ lastGet = [p \in Procs |-> NoGet]
    /\ lastPut = [p \in Procs |-> NoPut]
    /\ cl = ClientIdle
    /\ events = [p \in Procs |-> NoEvents]
    /\ harvested_projects = << >>
    /\ result_file = NoFile

NextScheduled == HarvestTrending("A") \/ SaveHarvest("A") \/ Next

SpecScheduled == InitScheduled /\ [][NextScheduled]_vars

\* ------------------------------------------------------- one task, any payload

\* A field that is missing, or present with one of the values.
Optional(key, values) == {<< >>} \cup {key :> v : v \in values}

\* The payloads of harvest tasks: each of the four fields missing or present,
\* with values that differ from the defaults, empty and zero among them.
Payloads ==
    { t @@ m @@ c @@ n :
        t \in Optional("topics", {<<"x", "y">>, << >>}),
        m \in Optional("min_stars", {0, 100}),
        c \in Optional("created_after", {"2023-06-01"}),
        n \in Optional("count_per_topic", {2}) }

\* The tracker holds one issue: a harvest task with one of the payloads or
\* without payload, or an issue whose body is not JSON.
PayloadIssues ==
    { <<[title |-> <<"new", "task">>,
         body |-> JsonDumps([type |-> "harvest", id |-> "t1", payload |-> pl])]>> :
        pl \in Payloads }
    \cup { <<[title |-> <<"new", "task">>, body |-> JsonDumps([type |-> "harvest", id |-> "t1"])]>>,
           <<[title |-> <<"Harvest", "repos">>, body |-> TextBody]>> }

InitPayloads ==
    /\ issues \in {Numbered(l) : l \in PayloadIssues}
    /\ comments = [i \in DOMAIN issues |-> << >>]
    /\ closed = {}
    /\ files = << >>
    /\ written = [p \in Procs |-> {}]
    /\ window = 0
    /\ cooldownAtSend = 0
    /\ pc = [p \in Procs |-> IF p = "A" THEN "list" ELSE "idle"]
    /\ attempt = [p \in Procs |-> 0]
    /\ tasks = [p \in Procs |-> << >>]
    /\ idx = [p \in Procs |-> 0]
    /\ sha = [p \in Procs |-> NoSha]
    /\ harvested = [p \in Procs |-> << >>]
    /\ topicIdx = [p \in Procs |-> 0]
    /\ err = [p \in Procs |-> NoErr]
    /\ lastGet = [p \in Procs |-> NoGet]
    /\ lastPut = [p \in Procs |-> NoPut]
    /\ cl = ClientIdle
    /\ events = [p \in Procs |-> NoEvents]
    /\ harvested_projects = << >>
    /\ result_file = NoFile

SpecPayloads == InitPayloads /\ [][Next]_vars

\* ------------------------------------------------- two tasks, types and ids

\* Task documents whose types and ids are alike, equal, missing or spelled
\* 'unknown', and an issue whose body is not JSON.
PathKinds ==
    { [title |-> <<"harvest", "more">>,
       body |-> JsonDumps([type |-> "harvest", id |-> "a_b", payload |-> [topics |-> << >>]])],
      [title |-> <<"harvest", "more">>,
       body |-> JsonDumps([type |-> "harvest_a", id |-> "b"])],
      [title |-> <<"new", "task">>, body |-> JsonDumps(HarvestT1x)],
      [title |-> <<"harvest", "more">>, body |-> JsonDumps(HarvestNoId)],
      [title |-> <<"harvest", "more">>,
       body |-> JsonDumps([type |-> "harvest", id |-> "unknown", payload |-> [topics |-> << >>]])],
      [title |-> <<"Harvest", "repos">>, body |-> TextBody] }

InitPaths ==
    /\ issues \in {Numbered(l) : l \in [1 .. 2 -> PathKinds]}
    /\ comments = [i \in DOMAIN issues |-> << >>]
    /\ closed = {}
    /\ files = << >>
    /\ written = [p \in Procs |-> {}]
    /\ window = 0
    /\ cooldownAtSend = 0
    /\ pc = [p \in Procs |-> IF p = "A" THEN "list" ELSE "idle"]
    /\ attempt = [p \in Procs |-> 0]
    /\ tasks = [p \in Procs |-> << >>]
    /\ idx = [p \in Procs |-> 0]
    /\ sha = [p \in Procs |-> NoSha]
    /\ harvested = [p \in Procs |-> << >>]
    /\ topicIdx = [p \in Procs |-> 0]
    /\ err = [p \in Procs |-> NoErr]
    /\ lastGet = [p \in Procs |-> NoGet]
    /\ lastPut = [p \in Procs |-> NoPut]
    /\ cl = ClientIdle
    /\ events = [p \in Procs |-> NoEvents]
    /\ harvested_projects = << >>
    /\ result_file = NoFile

SpecPaths == InitPaths /\ [][Next]_vars

\* ------------------------------------------------------ two writers, one path

\* Two runs overlap (spec section 5): both workers hold the same task and are
\* about to store their results, which differ, at the same path. The file is
\* absent or holds an earlier result at revision 1.
WriterTask == [title |-> <<"new", "task">>, body |-> JsonDumps(HarvestT1)]

EarlierResult == ResultJson(HarvestT1, HarvestResult(HarvestT1.payload, <<"ai", "ai">>))

InitWriters ==
    /\ issues = Numbered(<<WriterTask>>)
    /\ comments = [i \in DOMAIN issues |-> <<"started", "started">>]
    /\ closed = {}
    /\ files \in { << >>,
                   (OutputPath(HarvestT1) :> [sha |-> 1, content |-> EarlierResult]) }
    /\ written = [p \in Procs |-> {}]
    /\ window = 0
    /\ cooldownAtSend = 0
    /\ pc = [p \in Procs |-> "cuf_read"]
    /\ attempt = [p \in Procs |-> 0]
    /\ tasks = [p \in Procs |-> issues]
    /\ idx = [p \in Procs |-> 1]
    /\ sha = [p \in Procs |-> NoSha]
    /\ harvested = [p \in Procs |-> IF p = "A" THEN << >> ELSE <<"automation">>]
    /\ topicIdx = [p \in Procs |-> 2]
    /\ err = [p \in Procs |-> NoErr]
    /\ lastGet = [p \in Procs |-> NoGet]
    /\ lastPut = [p \in Procs |-> NoPut]
    /\ cl = ClientIdle
    /\ events = [p \in Procs |-> NoEvents]
    /\ harvested_projects = << >>
    /\ result_file = NoFile

NextWriters == \E p \in Procs : CufRead(p) \/ CufWrite(p)

SpecWriters == InitWriters /\ [][NextWriters]_vars

\* ------------------------------------------------- the client, call by call

\* What _request tells apart in a response.
Class(resp) ==
    IF resp.net THEN "net"
    ELSE IF IsRateLimited(resp) THEN "ratelimit"
    ELSE IF IsSuccess(resp) THEN "success"
    ELSE IF resp.status = 404 THEN "notfound"
    ELSE IF resp.status >= 400 THEN "error"
    ELSE "other"

\* A caller enters _request.
ClientCall ==
    /\ cl.outcome # "running"
    /\ cl.calls < MaxCalls
    /\ cl' = [attempt |-> 0, outcome |-> "running", sleeps |-> << >>, resps |-> << >>,
              calls |-> cl.calls + 1]
    /\ UNCHANGED <<tracker, files, written, window, cooldownAtSend, pc, attempt, tasks,
                   idx, locals, logs, events, sched>>

\* One iteration of the retry loop, on any response.
ClientAttempt ==
    /\ cl.outcome = "running"
    /\ \E resp \in Responses :
        LET it == Iteration(cl.attempt, resp)
            out == Outcome(cl.attempt, resp)
        IN  /\ cooldownAtSend' = window
            /\ window' = WindowAfter(window, resp, it.sleep)
            /\ cl' = [cl EXCEPT
                        !.attempt = IF out = "retry" THEN @ + 1 ELSE @,
                        !.outcome = IF out = "retry" THEN "running" ELSE out,
                        !.sleeps = IF it.sleep > 0 THEN Append(@, it.sleep) ELSE @,
                        !.resps = Append(@, Class(resp))]
    /\ UNCHANGED <<tracker, files, written, pc, attempt, tasks, idx, locals, logs,
                   events, sched>>

\* Time passes.
Tick ==
    /\ window > 0
    /\ window' = window - 1
    /\ UNCHANGED <<tracker, files, written, cooldownAtSend, pc, attempt, tasks, idx,
                   locals, logs, cl, events, sched>>

InitClient ==
    /\ issues = << >>
    /\ comments = << >>
    /\ closed = {}
    /\ files = << >>
    /\ written = [p \in Procs |-> {}]
    /\ window = 0
    /\ cooldownAtSend = 0
    /\ pc = [p \in Procs |-> "idle"]
    /\ attempt = [p \in Procs |-> 0]
    /\ tasks = [p \in Procs |-> << >>]
    /\ idx = [p \in Procs |-> 0]
    /\ sha = [p \in Procs |-> NoSha]
    /\ harvested = [p \in Procs |-> << >>]
    /\ topicIdx = [p \in Procs |-> 0]
    /\ err = [p \in Procs |-> NoErr]
    /\ lastGet = [p \in Procs |-> NoGet]
    /\ lastPut = [p \in Procs |-> NoPut]
    /\ cl = ClientIdle
    /\ events = [p \in Procs |-> NoEvents]
    /\ harvested_projects = << >>
    /\ result_file = NoFile

NextClient == ClientCall \/ ClientAttempt \/ Tick

SpecClient == InitClient /\ [][NextClient]_vars

\* The same with the call in progress going on: every sleep of _request is
\* finite, and the session answers or fails every request it sends.
SpecClientLive == SpecClient /\ WF_vars(ClientAttempt)


\* ============================================================== the claims

HasComment(i, text) == \E k \in DOMAIN comments[i] : comments[i][k] = text

\* The worker of Spec has taken issue i from its task list and is through with it.
Finished(i) ==
    \E k \in DOMAIN tasks["A"] :
        /\ tasks["A"][k].number = i
        /\ \/ idx["A"] > k
           \/ pc["A"] = "done"

\* Issue i is in the task list of the worker of Spec.
Listed(i) == \E k \in DOMAIN tasks["A"] : tasks["A"][k].number = i

\* ----------------------------------------------------------------------- C1
\* C1: the completion comment is on an issue, and the issue is closed, only if
\* the write of that task's result to the results repository succeeded.
\* (Stated for the harvest tasks, the ones the executor recognizes.)
C1_CompletionOnlyAfterWrite ==
    \A i \in DOMAIN issues :
        (/\ issues[i].body.kind = "json"
         /\ IsHarvest(issues[i].body.obj)
         /\ HasComment(i, "completed") \/ i \in closed)
        => i \in written["A"]

\* ----------------------------------------------------------------------- C2
\* The body of issue i is a JSON object whose type is not the harvest type.
OtherType(i) ==
    /\ issues[i].body.kind = "json"
    /\ Lower(Get(issues[i].body.obj, "type", "")) # "harvest"

\* C2: a task whose body is JSON with a type other than harvest gets no started
\* comment, no result file, no completion comment and stays open, and once the
\* run is through with it, it carries a failure comment.
C2_UnknownTypeFails ==
    \A i \in DOMAIN issues :
        OtherType(i) =>
            /\ ~HasComment(i, "started")
            /\ ~HasComment(i, "completed")
            /\ i \notin written["A"]
            /\ i \notin closed
            /\ Finished(i) => HasComment(i, "failed")

\* ----------------------------------------------------------------------- C3
\* C3: when the run has ended, every task of the list get_harvest_tasks
\* returned has been taken up by the loop (no task is left behind by a failure
\* of a task before it).
C3_EveryTaskProcessed ==
    pc["A"] \in {"done", "crashed"} => idx["A"] = Len(tasks["A"])

\* ----------------------------------------------------------------------- C4
\* The body of issue i cannot be decoded: it is text that is not JSON, or absent.
Undecodable(i) == issues[i].body.kind \in {"text", "null"}

\* The comment the except clauses post for such a body.
DecodeComment(i) == IF issues[i].body.kind = "text" THEN "parse_error" ELSE "failed"

\* C4 as stated: once the run is through with a listed issue whose body is not
\* valid JSON, the issue carries exactly one comment, the parse-failure
\* comment, no result was written for it and it is open.
C4_ExactlyOneComment ==
    \A i \in DOMAIN issues :
        (issues[i].body.kind = "text" /\ Finished(i)) =>
            /\ comments[i] = <<"parse_error">>
            /\ i \notin written["A"]
            /\ i \notin closed

\* C4 as amended: a listed issue whose body is not valid JSON never carries
\* more than one comment, and none but the failure comment of its except
\* clause (the parse-failure comment for text, the generic one for an absent
\* body); no started or completion comment, no write, no close; and no file
\* appears in the results repository while such issues are all the list holds.
C4_AtMostOneComment ==
    \A i \in DOMAIN issues :
        (Undecodable(i) /\ Listed(i)) =>
            /\ comments[i] \in {<< >>, <<DecodeComment(i)>>}
            /\ i \notin written["A"]
            /\ i \notin closed
            /\ (\A j \in DOMAIN issues : Undecodable(j)) => files = << >>

\* C4's case: the run is through with a text body and its one comment is posted.
C4_Witness ==
    \E i \in DOMAIN issues :
        /\ issues[i].body.kind = "text"
        /\ Finished(i)
        /\ comments[i] = <<"parse_error">>
        /\ pc["A"] = "done"


\* ----------------------------------------------------------------------- C5
\* C5: rate-limit responses do not use up the retry budget: a call that has
\* received nothing but rate-limit responses, however many, has not returned
\* to its caller; it waits and sends the request again.
C5_RateLimitKeepsBudget ==
    (\A k \in DOMAIN cl.resps : cl.resps[k] = "ratelimit")
        => cl.outcome \in {"idle", "running"}

\* ----------------------------------------------------------------------- C6
\* C6: no request is sent while the reset time advertised by a response with
\* a rate limit below the low-water mark is still ahead.
C6_NoRequestInCooldown == cooldownAtSend = 0

\* ----------------------------------------------------------------------- C7
\* Every response of the call so far is an error status (4xx/5xx, neither 404
\* nor a rate-limit 403) or a network error.
AllFail(resps) == \A k \in DOMAIN resps : resps[k] \in {"error", "net"}

\* C7: a call whose attempts all fail makes exactly max_retries attempts,
\* sleeps 2^attempt between them (1, then 2) and not after the last, and ends
\* by raising; it does not end before, and never with a value or None.
C7_BoundedRetries ==
    AllFail(cl.resps) =>
        /\ Len(cl.resps) <= max_retries
        /\ cl.sleeps = [k \in 1 .. (IF Len(cl.resps) < max_retries THEN Len(cl.resps)
                                    ELSE max_retries - 1) |-> 2 ^ (k - 1)]
        /\ Len(cl.resps) = max_retries => cl.outcome = "raise"
        /\ Len(cl.resps) < max_retries => cl.outcome \in {"idle", "running"}
        /\ Len(cl.resps) \in 1 .. max_retries - 1 => cl.outcome = "running"

\* C7's case: three failed attempts, of both kinds, and the call has raised.
C7_Witness ==
    /\ cl.outcome = "raise"
    /\ AllFail(cl.resps)
    /\ Len(cl.resps) = 3
    /\ cl.sleeps = <<1, 2>>
    /\ \E k \in DOMAIN cl.resps : cl.resps[k] = "net"
    /\ \E k \in DOMAIN cl.resps : cl.resps[k] = "error"


\* ----------------------------------------------------------------------- C8
\* Writers p and q have both read the same revision of the file, and p's
\* write has succeeded.
WonRace(p, q) ==
    /\ p # q
    /\ pc[p] # "cuf_read" /\ pc[q] # "cuf_read"
    /\ sha[p] = sha[q] /\ sha[p] # NoSha
    /\ written[p] # {}

\* The remote's answers to a write it refuses.
Rejections == {409, 422}

C9_WriteCarriesReadRevision ==
    \A p \in Procs :
        lastPut[p] # NoPut =>
            /\ lastGet[p] # NoGet
            /\ lastGet[p].path = lastPut[p].path
            /\ ("sha" \in DOMAIN lastPut[p].data) <=> (lastGet[p].sha # NoSha)
            /\ "sha" \in DOMAIN lastPut[p].data => lastPut[p].data.sha = lastGet[p].sha
            /\ lastGet[p].status = 404 => "sha" \notin DOMAIN lastPut[p].data

\* C9's cases: a write that carries the revision its read returned and is
\* accepted as an update, after a first task's write that followed a 404 and
\* created the file.
C9_Witness ==
    /\ lastPut["A"].status = 200
    /\ lastGet["A"].status = 200
    /\ lastPut["A"].data.sha = lastGet["A"].sha
    /\ Cardinality(written["A"]) = 2

\* C9's other case: the read found no file, and the write that follows
\* carries no revision id and creates it.
C9_WitnessCreate ==
    /\ lastGet["A"].status = 404
    /\ lastPut["A"].status = 201
    /\ "sha" \notin DOMAIN lastPut["A"].data

\* ---------------------------------------------------------------------- C10
\* The two tasks of the list store their results at the same path, and both
\* writes have succeeded.
TwoWrites ==
    /\ Len(tasks["A"]) = 2
    /\ written["A"] = {tasks["A"][1].number, tasks["A"][2].number}
    /\ OutputPath(JsonLoads(tasks["A"][1].body).value)
           = OutputPath(JsonLoads(tasks["A"][2].body).value)

\* The topics the second task's payload asks for (or the defaults).
SecondTopics == Topics(Get(JsonLoads(tasks["A"][2].body).value, "payload", << >>))

\* C10: after two successful writes for the same (date, type, id) the
\* repository holds one file, at outputs/<date>/<type>_<id>.json; the first
\* write created it (revision 1) and the second updated it with that revision
\* (to revision 2); its content is the second task's result.
C10_SecondWriteWins ==
    TwoWrites =>
        LET second == JsonLoads(tasks["A"][2].body).value
            path == OutputPath(second)
        IN  /\ DOMAIN files = {path}
            /\ path = <<OUTPUTS_DIR, "/", Today, "/", Get(second, "type", "unknown"), "_",
                        Get(second, "id", "unknown"), ".json">>
            /\ files[path].sha = 2
            /\ files[path].content.obj.task_id = Get(second, "id", "unknown")
            /\ IsHarvest(second) => files[path].content.obj.result.topics = SecondTopics
            /\ (idx["A"] = 2 /\ pc["A"] \in {"post_completed", "close"}) =>
                   /\ lastPut["A"].data.sha = 1
                   /\ files[path].content = ResultJson(second, Result("A"))

\* C10's case: two harvest tasks with the same id and different topics, both
\* stored, the second just written.
C10_Witness ==
    /\ TwoWrites
    /\ pc["A"] = "post_completed"
    /\ IsHarvest(JsonLoads(tasks["A"][1].body).value)
    /\ JsonLoads(tasks["A"][1].body).value # JsonLoads(tasks["A"][2].body).value
    /\ files[OutputPath(HarvestT1)].content.obj.result.topics = SecondTopics

\* ---------------------------------------------------------------------- C11
\* The body of issue i is a JSON object of the harvest type.
ValidHarvest(i) ==
    /\ i \in DOMAIN issues
    /\ issues[i].body.kind = "json"
    /\ IsHarvest(issues[i].body.obj)

\* The requests the run makes for a harvest task, in order: the started
\* comment, one search per topic, the read and the write of the result file,
\* the completed comment, the close.
Plan(task_json) ==
    <<"started">> \o [k \in 1 .. Len(Topics(Get(task_json, "payload", << >>))) |-> "search"]
        \o <<"read", "write", "completed", "close">>

\* The worker of Spec has left the task its events belong to.
LeftTask ==
    \/ pc["A"] \in {"done", "crashed"}
    \/ pc["A"] = "parse" /\ Task("A").number # events["A"].issue

\* C11: for a harvest task whose calls have all succeeded so far, the calls
\* made are the first steps of the plan, each once and in order: started
\* comment, searches, write at outputs/<today>/harvest_<id>.json, completed
\* comment, close; the comments, the file and the closing are there exactly
\* from their step on; the run leaves the task only with the plan carried out
\* in full; and the issue carries no failure comment.
C11_HappyPathInOrder ==
    LET e == events["A"]
    IN  (ValidHarvest(e.issue) /\ e.clean) =>
            LET d == issues[e.issue].body.obj
                plan == Plan(d)
                n == Len(e.calls)
                path == <<OUTPUTS_DIR, "/", Today, "/", "harvest", "_">>
                            \o Chars(Get(d, "id", "unknown")) \o <<".json">>
            IN  /\ n <= Len(plan)
                /\ \A k \in 1 .. n : e.calls[k].op = plan[k]
                /\ comments[e.issue] =
                       (IF n >= 1 THEN <<"started">> ELSE << >>)
                           \o (IF n >= Len(plan) - 1 THEN <<"completed">> ELSE << >>)
                /\ (e.issue \in written["A"]) <=> (n >= Len(plan) - 2)
                /\ n >= Len(plan) - 2 =>
                       /\ path \in DOMAIN files
                       /\ files[path].content.obj.task_id = Get(d, "id", "unknown")
                       /\ files[path].content.obj.task_type = "harvest"
                /\ (e.issue \in closed) <=> (n = Len(plan))
                /\ LeftTask => n = Len(plan)

\* C11's case: a harvest task with two topics went through all seven calls
\* without a failure and is closed.
C11_Witness ==
    /\ pc["A"] = "done"
    /\ ValidHarvest(events["A"].issue)
    /\ events["A"].clean
    /\ Len(events["A"].calls) = 7
    /\ comments[events["A"].issue] = <<"started", "completed">>
    /\ events["A"].issue \in closed

\* ---------------------------------------------------------------------- C12
\* The call that ended last for the current task is the one named.
LastCall(op) ==
    /\ events["A"].calls # << >>
    /\ Last(events["A"].calls).op = op

\* C12: the started comment is best-effort: a harvest task is never taken to
\* its failure handler by the started comment's request, and a harvest task
\* does not end up failed without its started comment.
C12_StartedBestEffort ==
    /\ (pc["A"] = "post_failure" /\ ValidHarvest(events["A"].issue))
          => ~LastCall("started")
    /\ \A i \in DOMAIN issues :
          (ValidHarvest(i) /\ Finished(i) /\ HasComment(i, "failed"))
              => HasComment(i, "started")

\* ---------------------------------------------------------------------- C13
\* C13: a failure of the close request does not make the task a failed one:
\* the close request never takes the task to its failure handler, and no
\* issue carries a failure comment after its completion comment.
C13_CloseFailureKeepsSuccess ==
    /\ pc["A"] = "post_failure" => ~LastCall("close")
    /\ \A i \in DOMAIN issues :
          \A k, m \in DOMAIN comments[i] :
              (comments[i][k] = "completed" /\ comments[i][m] = "failed") => m < k

\* ---------------------------------------------------------------------- C14
\* C14: the close request is sent for an issue only when that issue's result
\* has been written and its completion comment posted, and an issue that
\* carries a failure comment of this run is not closed by it.
C14_CloseOnlyAfterSuccess ==
    /\ pc["A"] = "close" =>
          /\ Task("A").number \in written["A"]
          /\ HasComment(Task("A").number, "completed")
    /\ \A i \in DOMAIN issues :
          (HasComment(i, "failed") \/ HasComment(i, "parse_error")) => i \notin closed

\* ---------------------------------------------------------------------- C15
\* C15: in scheduled mode no failure of a topic's search ends the run: the
\* run never ends before the harvested records, as far as gathered, are
\* saved in the local harvest file, and it goes on to list the tasks.
C15_SearchFailureNotFatal ==
    pc["A"] \in {"done", "crashed"} =>
        /\ result_file # NoFile
        /\ result_file = JsonDumps(harvested_projects)

\* ---------------------------------------------------------------------- C16
\* The issue is a harvest task by its title or by the type field of its JSON
\* body (compared as the filter compares it, without regard to case).
Admitted(issue) ==
    \/ TitleHasKeyword(issue)
    \/ /\ issue.body.kind = "json"
       /\ "type" \in DOMAIN issue.body.obj
       /\ Lower(issue.body.obj.type) = "harvest"

\* C16: whatever the bodies of the listed issues are (absent, not JSON, JSON
\* without type), the listing raises nothing of its own, so that only its
\* request can end the run before the first task, and it returns exactly the
\* admitted issues, in order.
C16_FilterSilent ==
    /\ (pc["A"] = "crashed" /\ idx["A"] = 0)
          => err["A"].exc \in {"HTTPError", "ConnectionError"}
    /\ idx["A"] > 0 => tasks["A"] = SelectSeq(issues, Admitted)

\* ---------------------------------------------------------------------- C17
IsSearch(call) == call.op = "search"

\* The searches made for the task of the events, in order.
Searches == SelectSeq(events["A"].calls, IsSearch)

\* The field of the payload as given, or the default when it is missing.
GivenOr(payload, key, default) == IF key \in DOMAIN payload THEN payload[key] ELSE default

\* C17: the searches made for a harvest task are, in order, one per topic of
\* the payload's topics (of ['ai', 'automation'] when topics is missing), no
\* more than there are topics and all of them once the result is being
\* stored; each carries the topic and the payload's min_stars, created_after
\* and count_per_topic exactly as given, empty and zero included, and the
\* defaults 10, '2024-01-01' and 3 exactly for the fields that are missing.
C17_SearchUsesPayload ==
    ValidHarvest(events["A"].issue) =>
        LET pl == Get(issues[events["A"].issue].body.obj, "payload", << >>)
            topics == GivenOr(pl, "topics", <<"ai", "automation">>)
        IN  /\ Len(Searches) <= Len(topics)
            /\ \A k \in DOMAIN Searches :
                  Searches[k].params =
                      [q |-> <<"topic:", topics[k],
                               " stars:>", GivenOr(pl, "min_stars", 10),
                               " created:>", GivenOr(pl, "created_after", "2024-01-01")>>,
                       sort |-> "stars", order |-> "desc",
                       per_page |-> GivenOr(pl, "count_per_topic", 3)]
            /\ (LastCall("read") \/ LastCall("write")) => Len(Searches) = Len(topics)

\* C17's case: a payload with topics, a zero min_stars and a count_per_topic,
\* and no created_after; both topics have been searched and the result is
\* being stored.
C17_Witness ==
    /\ ValidHarvest(events["A"].issue)
    /\ Get(issues[events["A"].issue].body.obj, "payload", << >>)
           = [topics |-> <<"x", "y">>, min_stars |-> 0, count_per_topic |-> 2]
    /\ Len(Searches) = 2
    /\ Searches[2].params.q = <<"topic:", "y", " stars:>", 0, " created:>", "2024-01-01">>
    /\ Searches[2].params.per_page = 2
    /\ LastCall("read")

\* ---------------------------------------------------------------------- C18
\* A call has sent at most max_retries requests, is over once it has sent
\* that many, and is over only as a returned value, None or an exception.
RequestsBounded ==
    /\ Len(cl.resps) <= max_retries
    /\ cl.outcome = "running" => cl.attempt = Len(cl.resps)
    /\ Len(cl.resps) = max_retries => cl.outcome # "running"
    /\ cl.outcome \in {"idle", "running", "value", "none", "raise"}

\* C18: for every sequence of responses (success, 404, rate limit, error
\* statuses, network errors, in any mix) a call of _request sends at most
\* max_retries requests and terminates: a call in progress comes to its end,
\* as a returned value, a returned None or a raised exception.
C18_RequestTerminates ==
    /\ []RequestsBounded
    /\ (cl.outcome = "running") ~> (cl.outcome \in {"value", "none", "raise"})

\* C18's case: a call that met a rate limit, an error status and a network
\* error, one after the other, has ended after its third request.
C18_Witness ==
    /\ cl.resps = <<"ratelimit", "error", "net">>
    /\ cl.outcome = "raise"

\* ---------------------------------------------------------------------- C19
\* The filter admits the issue for the type field of its JSON body, its title
\* having no keyword.
AdmittedByType(issue) ==
    /\ ~TitleHasKeyword(issue)
    /\ FilterIssue(issue) = "keep"

\* C19: a task admitted for its type field is executed as a harvest task: the
\* searches for its topics have run when its result is stored, and the result
\* stored holds the harvested records, not the error of an unknown type.
C19_FilterAndExecutorAgree ==
    LET i == events["A"].issue
    IN  (i \in DOMAIN issues /\ AdmittedByType(issues[i])) =>
            /\ LastCall("read") =>
                  Len(Searches) = Len(Topics(Get(issues[i].body.obj, "payload", << >>)))
            /\ lastPut["A"].status \in {200, 201} =>
                  LET stored == B64Decode(lastPut["A"].data.content).obj
                  IN  /\ "harvested_projects" \in DOMAIN stored.result
                      /\ "error" \notin DOMAIN stored.result

\* ---------------------------------------------------------------------- C20
\* The two task documents have the same (type, id) pair, a missing type or id
\* counting as 'unknown'.
SamePair(d1, d2) ==
    /\ Get(d1, "type", "unknown") = Get(d2, "type", "unknown")
    /\ Get(d1, "id", "unknown") = Get(d2, "id", "unknown")

\* C20: when the results of two issues of the run have both been written,
\* they went to the same path, leaving one file, if and only if the two tasks
\* have the same (type, id) pair; that one file is then at its second
\* revision and holds the later task's result.
C20_SamePathIffSamePair ==
    \A k, m \in DOMAIN tasks["A"] :
        (/\ k < m
         /\ tasks["A"][k].number \in written["A"]
         /\ tasks["A"][m].number \in written["A"]) =>
            LET d1 == JsonLoads(tasks["A"][k].body).value
                d2 == JsonLoads(tasks["A"][m].body).value
            IN  /\ (Cardinality(DOMAIN files) = 1) <=> SamePair(d1, d2)
                /\ SamePair(d1, d2) =>
                      /\ files[OutputPath(d2)].sha = 2
                      /\ files[OutputPath(d2)].content.obj.task_id = Get(d2, "id", "unknown")


====
